---- MODULE Spec2Model ----
(***************************************************************************)
(* Request-lifecycle core of the serving engine                            *)
(* (cpp/serve/engine_actions/action_commons.cc): finish propagation,       *)
(* prefix-cache sync, the post-step pipeline and preemption, over the      *)
(* engine state (running/waiting queues, request-state map, sequence-id    *)
(* allocator, prefix cache, per-model sequence storage).                   *)
(*                                                                         *)
(* Indices are kept 0-based as in the source: entries and mstates are      *)
(* functions over 0..k-1, entries[0] is the root, parent_idx = -1 marks    *)
(* the root.  Token sequences (committed_tokens, token_ids) are TLA+       *)
(* sequences, so C++ element [i] is element [i + 1] here.                  *)
(*                                                                         *)
(* Speculative draft tokens are not modelled: the draft-token workspace    *)
(* manager is an Optional that is left undefined (line 250 is false).      *)
(* Metrics (prefill_tokens, finish_time_point) are not modelled.           *)
(***************************************************************************)
EXTENDS Integers, Sequences, FiniteSets, TLC

\* ------------------------------------------------------------------ bounds
\* Request ids the engine may be given (each submitted at most once).
RequestIds == {1, 2}
\* Branch counts n (generation_cfg->n) a request may ask for.
BranchCounts == {1, 2}
\* Models of the engine (Array<Model>); mstates[0] is the canonical one.
Models == {0, 1}
\* Most committed tokens per entry.
MaxCommitted == 3
\* Most preemptions of one entry in one run.
MaxPreemptions == 1
\* Most request-state entries the engine holds over one run.
MaxEntries == 3

\* ------------------------------------------------------------------- state
VARIABLES
  requests,                   \* request id -> the immutable Request, or NoRequest
  rstates,                    \* request id -> the RequestState object (its entries)
  request_states,             \* keys of estate->request_states
  running_queue,              \* estate->running_queue
  waiting_queue,              \* estate->waiting_queue
  id_manager,                 \* estate->id_manager
  prefix_cache,               \* estate->prefix_cache
  model_seqs,                 \* model -> sequence ids held in its storage (KV cache)
  running_rsentries_changed,  \* estate->running_rsentries_changed
  fatal,                      \* "none", or the ICHECK that aborted the process
  num_preemptions,            \* <<request, entry>> -> preemptions so far (bounds the run)
  step_requests,              \* the requests of the engine step under way, <<>> between steps
  callback_log,               \* batches handed to request_stream_callback by the post-step run just done
  extend_log,                 \* ExtendSequence calls of the post-step run just done
  usage_count,                \* request id -> usage events emitted so far
  release_log,                \* <<request, entry>> -> releases done by RemoveRequestStateEntry
  notified,                   \* <<request, entry>> -> decode tokens notified under the current id
  last_op                     \* the operation that produced this state, with what it observed

vars == <<requests, rstates, request_states, running_queue, waiting_queue, id_manager,
          prefix_cache, model_seqs, running_rsentries_changed, fatal, num_preemptions,
          step_requests, callback_log, extend_log, usage_count, release_log, notified, last_op>>

\* -------------------------------------------------------------- data model
kPending == "Pending"
kAlive == "Alive"
kFinished == "Finished"

NoRequest == [id |-> 0]
NoState == [entries |-> <<>>]

TokenData(ids) == [kind |-> "token", token_ids |-> ids]
ImageData == [kind |-> "image", token_ids |-> <<>>]

\* The requests the engine may be given: branch count n, the pinned debug
\* flag, and the input chunks (never empty; the last one a token chunk or not).
RequestProfiles ==
  { [n |-> 1, pinned |-> FALSE, inputs |-> <<TokenData(<<7>>)>>],
    [n |-> 1, pinned |-> TRUE, inputs |-> <<TokenData(<<7, 8>>), ImageData>>],
    [n |-> 2, pinned |-> FALSE, inputs |-> <<TokenData(<<7, 8>>), ImageData>>],
    [n |-> 2, pinned |-> TRUE, inputs |-> <<TokenData(<<7>>)>>] }

MaxN == CHOOSE n \in BranchCounts : \A k \in BranchCounts : k <= n

\* Data::GetLength
GetLength(data) == IF data.kind = "token" THEN Len(data.token_ids) ELSE 1

EntryKeys == RequestIds \X (0 .. MaxN)

NumEntries(rstate) == Cardinality(DOMAIN rstate.entries)

\* The engine state as one value, so that the handlers compose.
EState ==
  [rstates |-> rstates, request_states |-> request_states,
   running_queue |-> running_queue, waiting_queue |-> waiting_queue,
   id_manager |-> id_manager, prefix_cache |-> prefix_cache, model_seqs |-> model_seqs,
   running_rsentries_changed |-> running_rsentries_changed, fatal |-> fatal,
   release_log |-> release_log, notified |-> notified]

SetEState(e) ==
  /\ rstates' = e.rstates
  /\ request_states' = e.request_states
  /\ running_queue' = e.running_queue
  /\ waiting_queue' = e.waiting_queue
  /\ id_manager' = e.id_manager
  /\ prefix_cache' = e.prefix_cache
  /\ model_seqs' = e.model_seqs
  /\ running_rsentries_changed' = e.running_rsentries_changed
  /\ fatal' = e.fatal
  /\ release_log' = e.release_log
  /\ notified' = e.notified

\* Sequence helpers.
InSeq(x, s) == \E k \in 1 .. Len(s) : s[k] = x
RemoveFirst(s, x) ==
  IF ~InSeq(x, s) THEN s
  ELSE LET k == CHOOSE j \in 1 .. Len(s) : s[j] = x /\ \A h \in 1 .. j - 1 : s[h] # x
       IN SubSeq(s, 1, k - 1) \o SubSeq(s, k + 1, Len(s))

\* ---------------------------------------------------------- collaborators
\* Sequence-id allocator (estate->id_manager): a counter of fresh ids and a
\* pool of recycled ones.  GetNewId hands out a pooled id when there is one.
GetNewId(idm) ==
  IF idm.available_ids # <<>>
    THEN [id |-> idm.available_ids[Len(idm.available_ids)],
          idm |-> [idm EXCEPT !.available_ids = SubSeq(@, 1, Len(@) - 1)]]
    ELSE [id |-> idm.id_cnt, idm |-> [idm EXCEPT !.id_cnt = @ + 1]]

RecycleId(idm, id) == [idm EXCEPT !.available_ids = Append(@, id)]

\* Prefix cache (estate->prefix_cache): whether the engine runs with one
\* (enabled), the resident sequences, and those of them whose reclamation is
\* deferred (lazy recycle).  Without a prefix cache no sequence is resident.
HasSequence(pc, id) == id \in pc.seqs

\* Model::RemoveSequence on one model's storage.
RemoveSequence(seqs, id) == seqs \ {id}

\* RecycleSequence(id, lazy): lazy defers the physical reclaim, the sequence
\* stays resident; eager reclaims at once, cache and model storage alike.
RecycleSequence(e, id, lazy) ==
  IF lazy
    THEN [e EXCEPT !.prefix_cache.recycling = @ \cup {id}]
    ELSE [e EXCEPT !.prefix_cache.seqs = @ \ {id},
                   !.prefix_cache.recycling = @ \ {id},
                   !.model_seqs = [m \in Models |-> RemoveSequence(@[m], id)]]

\* ------------------------------------------------------ finish propagation
RemoveRequestFromModel(e, req_internal_id) ==
  [e EXCEPT !.model_seqs = [m \in Models |-> RemoveSequence(@[m], req_internal_id)]]

\* Mutant of ReleasedId: the id of the request's root entry is released.
ReleasedId_Root(e, r, idx) == e.rstates[r].entries[0].mstates[0].internal_id

\* rsentry->mstates[0]->internal_id, the sequence RemoveRequestStateEntry releases.
ReleasedId(e, r, idx) == e.rstates[r].entries[idx].mstates[0].internal_id

\* Mutant of RemoveRequestStateEntry: the pinned flag is not looked at.
RemoveRequestStateEntry_IgnorePinned(e, r, idx, pinned) ==
  LET id == e.rstates[r].entries[idx].mstates[0].internal_id IN
  IF HasSequence(e.prefix_cache, id)
    THEN [RecycleSequence(e, id, TRUE) EXCEPT !.release_log[<<r, idx>>].cache = @ + 1]
    ELSE [RemoveRequestFromModel(e, id) EXCEPT
            !.id_manager = RecycleId(@, id),
            !.release_log[<<r, idx>>].model = @ + 1,
            !.release_log[<<r, idx>>].freed = @ + 1]

\* Mutant of RemoveRequestStateEntry: the prefix cache is asked for an eager recycle.
RemoveRequestStateEntry_Eager(e, r, idx, pinned) ==
  LET id == ReleasedId(e, r, idx) IN
  IF HasSequence(e.prefix_cache, id)
    THEN IF ~pinned
           THEN [RecycleSequence(e, id, FALSE) EXCEPT !.release_log[<<r, idx>>].cache = @ + 1]
           ELSE e
    ELSE [RemoveRequestFromModel(e, id) EXCEPT
            !.id_manager = RecycleId(@, id),
            !.release_log[<<r, idx>>].model = @ + 1,
            !.release_log[<<r, idx>>].freed = @ + 1]

\* RemoveRequestStateEntry(estate, models, rsentry), rsentry = entries[idx] of request r.
\* pinned is rsentry->request->generation_cfg->debug_config.pinned_system_prompt.
RemoveRequestStateEntry(e, r, idx, pinned) ==
  LET id == ReleasedId(e, r, idx) IN
  IF HasSequence(e.prefix_cache, id)
    THEN IF ~pinned
           THEN [RecycleSequence(e, id, TRUE) EXCEPT !.release_log[<<r, idx>>].cache = @ + 1]
           ELSE e
    ELSE [RemoveRequestFromModel(e, id) EXCEPT
            !.id_manager = RecycleId(@, id),
            !.release_log[<<r, idx>>].model = @ + 1,
            !.release_log[<<r, idx>>].freed = @ + 1]

\* Mutant of AllChildrenFinished: one Finished child is taken to be enough.
AllChildrenFinished_SomeChild(rstate, parent_idx) ==
  \E k \in 1 .. Len(rstate.entries[parent_idx].child_indices) :
    rstate.entries[rstate.entries[parent_idx].child_indices[k]].status = kFinished

\* Lines 59-65: every child of entries[parent_idx] is Finished.
AllChildrenFinished(rstate, parent_idx) ==
  \A k \in 1 .. Len(rstate.entries[parent_idx].child_indices) :
    rstate.entries[rstate.entries[parent_idx].child_indices[k]].status = kFinished

\* Lines 58-78: the climb from parent_idx; yields the state and the index at
\* which the loop stopped (-1 when the root was marked Finished).
RECURSIVE ClimbParents(_, _, _, _)
ClimbParents(e, r, parent_idx, pinned) ==
  IF parent_idx = -1 THEN [e |-> e, parent_idx |-> -1]
  ELSE IF ~AllChildrenFinished(e.rstates[r], parent_idx) THEN [e |-> e, parent_idx |-> parent_idx]
  ELSE LET e1 == [e EXCEPT !.rstates[r].entries[parent_idx].status = kFinished]
           e2 == RemoveRequestStateEntry(e1, r, parent_idx, pinned)
       IN ClimbParents(e2, r, e2.rstates[r].entries[parent_idx].parent_idx, pinned)

\* Mutant of RootReached: every finished leaf is taken to finish its request.
RootReached_Always(parent_idx) == TRUE

\* Line 80: the climb ended above the root, so the whole request has finished.
RootReached(parent_idx) == parent_idx = -1

Usage(request_id) == [kind |-> "usage", request_id |-> request_id]

\* Mutant of ProcessFinishedEntry: the entry is marked Finished before the leaf check.
ProcessFinishedEntry_MarkFirst(st, key, pinned) ==
  LET e == st.e
      r == key[1]
      idx == key[2]
      e1 == [e EXCEPT !.rstates[r].entries[idx].status = kFinished]
  IN
  IF e.fatal # "none" THEN st
  ELSE IF e.rstates[r].entries[idx].child_indices # <<>>
    THEN [st EXCEPT !.e = [e1 EXCEPT !.fatal = "ICHECK(rsentry->child_indices.empty())"]]
  ELSE
    LET e2 == RemoveRequestStateEntry(e1, r, idx, pinned) IN
    IF r \notin e2.request_states
      THEN [st EXCEPT !.e = [e2 EXCEPT !.fatal = "GetRequestState"]]
    ELSE
      LET c == ClimbParents(e2, r, e2.rstates[r].entries[idx].parent_idx, pinned) IN
      IF RootReached(c.parent_idx)
        THEN IF ~InSeq(r, c.e.running_queue)
               THEN [st EXCEPT !.e = [c.e EXCEPT !.fatal = "ICHECK(it != running_queue.end())"]]
               ELSE [e |-> [c.e EXCEPT !.running_queue = RemoveFirst(@, r),
                                        !.request_states = @ \ {r},
                                        !.running_rsentries_changed = TRUE],
                     out |-> Append(st.out, Usage(r))]
        ELSE [st EXCEPT !.e = [c.e EXCEPT !.running_rsentries_changed = TRUE]]

\* Mutant of ProcessFinishedEntry: the usage event is put at the front of the batch.
ProcessFinishedEntry_UsageFirst(st, key, pinned) ==
  LET e == st.e
      r == key[1]
      idx == key[2]
  IN
  IF e.fatal # "none" THEN st
  ELSE IF e.rstates[r].entries[idx].child_indices # <<>>
    THEN [st EXCEPT !.e.fatal = "ICHECK(rsentry->child_indices.empty())"]
  ELSE
    LET e1 == [e EXCEPT !.rstates[r].entries[idx].status = kFinished]
        e2 == RemoveRequestStateEntry(e1, r, idx, pinned)
    IN
    IF r \notin e2.request_states
      THEN [st EXCEPT !.e = [e2 EXCEPT !.fatal = "GetRequestState"]]
    ELSE
      LET c == ClimbParents(e2, r, e2.rstates[r].entries[idx].parent_idx, pinned) IN
      IF RootReached(c.parent_idx)
        THEN IF ~InSeq(r, c.e.running_queue)
               THEN [st EXCEPT !.e = [c.e EXCEPT !.fatal = "ICHECK(it != running_queue.end())"]]
               ELSE [e |-> [c.e EXCEPT !.running_queue = RemoveFirst(@, r),
                                        !.request_states = @ \ {r},
                                        !.running_rsentries_changed = TRUE],
                     out |-> <<Usage(r)>> \o st.out]
        ELSE [st EXCEPT !.e = [c.e EXCEPT !.running_rsentries_changed = TRUE]]

\* Lines 48-100, one iteration: st = [e, out], key = <<request, entry index>>.
\* A failed ICHECK aborts the process with what was done so far.
ProcessFinishedEntry(st, key, pinned) ==
  LET e == st.e
      r == key[1]
      idx == key[2]
  IN
  IF e.fatal # "none" THEN st
  ELSE IF e.rstates[r].entries[idx].child_indices # <<>>
    THEN [st EXCEPT !.e.fatal = "ICHECK(rsentry->child_indices.empty())"]
  ELSE
    LET e1 == [e EXCEPT !.rstates[r].entries[idx].status = kFinished]
        e2 == RemoveRequestStateEntry(e1, r, idx, pinned)
    IN
    IF r \notin e2.request_states
      THEN [st EXCEPT !.e = [e2 EXCEPT !.fatal = "GetRequestState"]]
    ELSE
      LET c == ClimbParents(e2, r, e2.rstates[r].entries[idx].parent_idx, pinned) IN
      IF RootReached(c.parent_idx)
        THEN IF ~InSeq(r, c.e.running_queue)
               THEN [st EXCEPT !.e = [c.e EXCEPT !.fatal = "ICHECK(it != running_queue.end())"]]
               ELSE [e |-> [c.e EXCEPT !.running_queue = RemoveFirst(@, r),
                                        !.request_states = @ \ {r},
                                        !.running_rsentries_changed = TRUE],
                     out |-> Append(st.out, Usage(r))]
        ELSE [st EXCEPT !.e = [c.e EXCEPT !.running_rsentries_changed = TRUE]]

\* ProcessFinishedRequestStateEntries(finished_rsentries, estate, models, ..., callback_delta_outputs)
RECURSIVE ProcessFinishedRequestStateEntries(_, _, _)
ProcessFinishedRequestStateEntries(finished_rsentries, e, callback_delta_outputs) ==
  IF finished_rsentries = <<>> THEN [e |-> e, out |-> callback_delta_outputs]
  ELSE LET st == ProcessFinishedEntry([e |-> e, out |-> callback_delta_outputs],
                                      Head(finished_rsentries),
                                      requests[Head(finished_rsentries)[1]].pinned)
       IN ProcessFinishedRequestStateEntries(Tail(finished_rsentries), st.e, st.out)

\* ------------------------------------------------------- prefix-cache sync
\* Lines 110-117: the token ids of the token chunks of prefilled_inputs.
RECURSIVE FlattenTokenIds(_)
FlattenTokenIds(datas) ==
  IF datas = <<>> THEN <<>>
  ELSE (IF Head(datas).kind = "token" THEN Head(datas).token_ids ELSE <<>>)
         \o FlattenTokenIds(Tail(datas))

\* Lines 125-131: committed_tokens[cached_committed_tokens .. size - 2].
DecodeTokenIds(mstate) ==
  [j \in 1 .. (Len(mstate.committed_tokens) - 1 - mstate.cached_committed_tokens) |->
     mstate.committed_tokens[mstate.cached_committed_tokens + j]]

\* Line 121: the watermark is behind the committed tokens but the newest.
NeedsDecodeSync(mstate) ==
  mstate.cached_committed_tokens < Len(mstate.committed_tokens) - 1

\* Mutant of SyncedWatermark: the newest committed token is counted as cached.
SyncedWatermark_All(mstate) == Len(mstate.committed_tokens)

\* Lines 133-134: the watermark after the decode part of the sync.
SyncedWatermark(mstate) == Len(mstate.committed_tokens) - 1

\* Lines 108-135 on one entry: the entry afterwards.
SyncedEntry(rsentry) ==
  LET m0 == rsentry.mstates[0]
      m1 == [m0 EXCEPT !.prefilled_inputs = <<>>]
      m2 == IF NeedsDecodeSync(m1)
              THEN [m1 EXCEPT !.cached_committed_tokens = SyncedWatermark(m1)]
              ELSE m1
  IN [rsentry EXCEPT !.mstates[0] = m2]

\* Lines 108-135 on one entry: the ExtendSequence calls, in order.
ExtendCalls(rsentry, key) ==
  LET m0 == rsentry.mstates[0] IN
  (IF m0.prefilled_inputs # <<>>
     THEN <<[id |-> m0.internal_id, token_ids |-> FlattenTokenIds(m0.prefilled_inputs),
             part |-> "prefill", key |-> key, status |-> rsentry.status]>>
     ELSE <<>>)
  \o
  (IF NeedsDecodeSync(m0)
     THEN <<[id |-> m0.internal_id, token_ids |-> DecodeTokenIds(m0),
             part |-> "decode", key |-> key, status |-> rsentry.status]>>
     ELSE <<>>)

RECURSIVE EntryExtendCalls(_, _, _)
EntryExtendCalls(rstate, r, i) ==
  IF i \notin DOMAIN rstate.entries THEN <<>>
  ELSE ExtendCalls(rstate.entries[i], <<r, i>>) \o EntryExtendCalls(rstate, r, i + 1)

RECURSIVE AllExtendCalls(_, _)
AllExtendCalls(rs, reqs) ==
  IF reqs = <<>> THEN <<>>
  ELSE EntryExtendCalls(rs[Head(reqs)], Head(reqs), 0) \o AllExtendCalls(rs, Tail(reqs))

\* The decode tokens notified under an entry's current sequence id, after the sync.
NotifiedAfterSync(e, reqs) ==
  [k \in EntryKeys |->
     IF InSeq(k[1], reqs) /\ k[2] \in DOMAIN e.rstates[k[1]].entries
          /\ NeedsDecodeSync(e.rstates[k[1]].entries[k[2]].mstates[0])
       THEN e.notified[k] \o DecodeTokenIds(e.rstates[k[1]].entries[k[2]].mstates[0])
       ELSE e.notified[k]]

\* UpdatePrefixCache(rstates, estate): reqs are the (distinct) requests of rstates.
UpdatePrefixCache(reqs, e) ==
  [e EXCEPT
     !.rstates = [r \in DOMAIN e.rstates |->
                    IF InSeq(r, reqs)
                      THEN [entries |-> [i \in DOMAIN e.rstates[r].entries |->
                                           SyncedEntry(e.rstates[r].entries[i])]]
                      ELSE e.rstates[r]],
     !.notified = NotifiedAfterSync(e, reqs)]

\* ------------------------------------------------------ post-step pipeline
\* RequestStateEntry::GetDeltaRequestReturn: the tokens committed since the
\* last report, the finish reason when the branch just terminated (finish),
\* and the extra prefix text (extra).
GetDeltaRequestReturn(rsentry, finish, extra) ==
  [delta_token_ids |-> SubSeq(rsentry.mstates[0].committed_tokens,
                              rsentry.next_callback_token_pos + 1,
                              Len(rsentry.mstates[0].committed_tokens)),
   finish_reason |-> IF finish THEN "stop" ELSE "none",
   extra_prefix_string |-> IF extra THEN "x" ELSE ""]

\* Mutant of BranchEntryIdx: branch i is read from entry i whatever n is.
BranchEntryIdx_NoRootSkip(n, i) == i

\* Line 183: the entry that reported branch i of a request with n branches is read from.
BranchEntryIdx(n, i) == IF n = 1 THEN 0 ELSE i + 1

\* Lines 182-199: the returns of the n branches of request r.
GroupReturns(e, r, fin, extra) ==
  [i \in 0 .. requests[r].n - 1 |->
     GetDeltaRequestReturn(e.rstates[r].entries[BranchEntryIdx(requests[r].n, i)],
                           <<r, i>> \in fin, <<r, i>> \in extra)]

\* Lines 186-193.
InvokeCallback(rets) ==
  \E i \in DOMAIN rets :
    \/ rets[i].finish_reason # "none"
    \/ rets[i].delta_token_ids # <<>>
    \/ rets[i].extra_prefix_string # ""

\* Lines 202-206: the aggregated event of one request (arrays in branch order).
RequestStreamOutput(request_id, rets) ==
  [kind |-> "delta", request_id |-> request_id,
   group_delta_token_ids |-> [k \in 1 .. Cardinality(DOMAIN rets) |-> rets[k - 1].delta_token_ids],
   group_finish_reason |-> [k \in 1 .. Cardinality(DOMAIN rets) |-> rets[k - 1].finish_reason],
   group_extra_prefix_string |->
     [k \in 1 .. Cardinality(DOMAIN rets) |-> rets[k - 1].extra_prefix_string]]

\* Mutant of FinishedOfRequest: a branch that returned tokens counts as finished.
RECURSIVE FinishedOfRequest_OnTokens(_, _, _, _)
FinishedOfRequest_OnTokens(r, n, rets, i) ==
  IF i >= n THEN <<>>
  ELSE (IF rets[i].finish_reason # "none" \/ rets[i].delta_token_ids # <<>>
          THEN <<<<r, BranchEntryIdx(n, i)>>>> ELSE <<>>)
         \o FinishedOfRequest_OnTokens(r, n, rets, i + 1)

\* Lines 186-189: the entries of request r pushed to finished_rsentries, from branch i on.
RECURSIVE FinishedOfRequest(_, _, _, _)
FinishedOfRequest(r, n, rets, i) ==
  IF i >= n THEN <<>>
  ELSE (IF rets[i].finish_reason # "none" THEN <<<<r, BranchEntryIdx(n, i)>>>> ELSE <<>>)
         \o FinishedOfRequest(r, n, rets, i + 1)

\* Lines 168-208 over the requests of the step: [out, finished].
RECURSIVE CollectDeltas(_, _, _, _)
CollectDeltas(e, reqs, fin, extra) ==
  IF reqs = <<>> THEN [out |-> <<>>, finished |-> <<>>]
  ELSE LET r == Head(reqs)
           rets == GroupReturns(e, r, fin, extra)
           rest == CollectDeltas(e, Tail(reqs), fin, extra)
       IN [out |-> (IF InvokeCallback(rets) THEN <<RequestStreamOutput(r, rets)>> ELSE <<>>)
                     \o rest.out,
           finished |-> FinishedOfRequest(r, requests[r].n, rets, 0) \o rest.finished]

\* GetDeltaRequestReturn's effect on the entries it is called on: the report position.
ReportedEntries(e, reqs) ==
  [e EXCEPT !.rstates =
     [r \in DOMAIN e.rstates |->
        IF ~InSeq(r, reqs) THEN e.rstates[r]
        ELSE [entries |->
                [i \in DOMAIN e.rstates[r].entries |->
                   IF \E b \in 0 .. requests[r].n - 1 : BranchEntryIdx(requests[r].n, b) = i
                     THEN [e.rstates[r].entries[i] EXCEPT
                             !.next_callback_token_pos = Len(e.rstates[r].entries[i].mstates[0].committed_tokens)]
                     ELSE e.rstates[r].entries[i]]]]]

CountUsage(out, r) ==
  Cardinality({k \in 1 .. Len(out) : out[k].kind = "usage" /\ out[k].request_id = r})

\* ActionStepPostProcess(requests, estate, models, ..., request_stream_callback, ...):
\* the result of the whole run, [e, out, extend, finished].
PostProcessResult(e, reqs, fin, extra) ==
  LET e1 == UpdatePrefixCache(reqs, e)
      col == CollectDeltas(e1, reqs, fin, extra)
      e2 == ReportedEntries(e1, reqs)
      pf == ProcessFinishedRequestStateEntries(col.finished, e2, col.out)
  IN [e |-> pf.e, out |-> pf.out, extend |-> AllExtendCalls(e.rstates, reqs),
      finished |-> col.finished]

\* A branch may report a finish reason when it is running: its entry is Alive,
\* fully prefilled and has committed a token.
MayFinish(r, i) ==
  LET rsentry == rstates[r].entries[BranchEntryIdx(requests[r].n, i)] IN
  /\ rsentry.status = kAlive
  /\ rsentry.mstates[0].inputs = <<>>
  /\ rsentry.mstates[0].committed_tokens # <<>>

Branches(reqs) ==
  {k \in EntryKeys : InSeq(k[1], reqs) /\ k[2] < requests[k[1]].n}

\* Mutant of StreamCallbackCalls: the callback is invoked once per event.
StreamCallbackCalls_PerEvent(callback_delta_outputs) ==
  [k \in 1 .. Len(callback_delta_outputs) |-> <<callback_delta_outputs[k]>>]

\* Lines 214-218: the invocations of request_stream_callback, each with its batch.
StreamCallbackCalls(callback_delta_outputs) ==
  IF callback_delta_outputs # <<>> THEN <<callback_delta_outputs>> ELSE <<>>

ActionStepPostProcess(reqs, fin, extra) ==
  /\ fatal = "none"
  /\ reqs # <<>>
  /\ step_requests' = <<>>
  /\ LET res == PostProcessResult(EState, reqs, fin, extra) IN
     /\ SetEState(res.e)
     /\ callback_log' = IF res.e.fatal = "none" THEN StreamCallbackCalls(res.out) ELSE <<>>
     /\ extend_log' = res.extend
     /\ usage_count' = [r \in RequestIds |-> usage_count[r] + CountUsage(res.out, r)]
     /\ last_op' = [op |-> "postproc", requests |-> reqs, fin |-> fin, extra |-> extra]
  /\ UNCHANGED <<requests, num_preemptions>>

\* Every engine step ends with the post-step run over the requests it touched.
PostProcess ==
  \E fin \in SUBSET {k \in Branches(step_requests) : MayFinish(k[1], k[2])} :
    \E extra \in SUBSET {k \in Branches(step_requests) : MayFinish(k[1], k[2])} :
      /\ Cardinality(extra) <= 1
      /\ ActionStepPostProcess(step_requests, fin, extra)

\* -------------------------------------------------------------- preemption
\* Mutant of RebuildInputs: the committed token ids always go into a new chunk,
\* and a non-root entry replays the request inputs as well.
RebuildInputs_ReplayAll(request_inputs, parent_idx, committed_token_ids) ==
  IF committed_token_ids # <<>>
    THEN Append(request_inputs, TokenData(committed_token_ids))
    ELSE request_inputs

\* Lines 261-276: the inputs rebuilt for one model state of the evicted entry.
RebuildInputs(request_inputs, parent_idx, committed_token_ids) ==
  IF parent_idx = -1
    THEN LET last == request_inputs[Len(request_inputs)] IN
         IF last.kind = "token"
           THEN [request_inputs EXCEPT
                   ![Len(request_inputs)] = TokenData(last.token_ids \o committed_token_ids)]
           ELSE IF committed_token_ids # <<>>
                  THEN Append(request_inputs, TokenData(committed_token_ids))
                  ELSE request_inputs
    ELSE IF committed_token_ids # <<>>
           THEN <<TokenData(committed_token_ids)>>
           ELSE <<>>

\* Lines 249-279 on one model state.
PreemptedModelState(mstate, request_inputs, parent_idx) ==
  [mstate EXCEPT
     !.num_prefilled_tokens = 0,
     !.inputs = RebuildInputs(request_inputs, parent_idx, mstate.committed_tokens),
     !.prefilled_inputs = <<>>,
     !.cached_committed_tokens = 0]

\* Mutant of LastAliveIdx: the last entry is taken whatever its status.
LastAliveIdx_LastEntry(rstate) ==
  IF DOMAIN rstate.entries = {} THEN -1
  ELSE CHOOSE i \in DOMAIN rstate.entries : \A j \in DOMAIN rstate.entries : j <= i

\* Mutant of LastAliveIdx: any entry that is not Pending is taken.
LastAliveIdx_NotPending(rstate) ==
  LET alive == {i \in DOMAIN rstate.entries : rstate.entries[i].status # kPending} IN
  IF alive = {} THEN -1 ELSE CHOOSE i \in alive : \A j \in alive : j <= i

\* Lines 230-236: the highest index of an Alive entry, -1 when there is none.
LastAliveIdx(rstate) ==
  LET alive == {i \in DOMAIN rstate.entries : rstate.entries[i].status = kAlive} IN
  IF alive = {} THEN -1 ELSE CHOOSE i \in alive : \A j \in alive : j <= i

\* Mutant of ReleasePreempted: the release comes after the reassignment, so
\* that it reads the fresh id from the entry and releases that one.
ReleasePreempted_AfterReassign(e, id) ==
  LET fresh == GetNewId(e.id_manager).id IN
  IF HasSequence(e.prefix_cache, fresh)
    THEN RecycleSequence(e, fresh, FALSE)
    ELSE RemoveRequestFromModel(e, fresh)

\* Lines 280-284: the release of the evicted sequence.
ReleasePreempted(e, id) ==
  IF HasSequence(e.prefix_cache, id)
    THEN RecycleSequence(e, id, FALSE)
    ELSE RemoveRequestFromModel(e, id)

\* Mutant of QueuesAfterPreempt: the request is not erased from the running queue.
QueuesAfterPreempt_KeepRunning(e, request, preempt_rstate_idx, partially_alive, num_entries) ==
  [e EXCEPT
     !.waiting_queue = IF ~partially_alive /\ preempt_rstate_idx = num_entries - 1
                         THEN <<request>> \o @ ELSE @]

\* Lines 291-298: the queues after the eviction of entries[preempt_rstate_idx].
QueuesAfterPreempt(e, request, preempt_rstate_idx, partially_alive, num_entries) ==
  [e EXCEPT
     !.running_queue = IF preempt_rstate_idx = 0 THEN SubSeq(@, 1, Len(@) - 1) ELSE @,
     !.waiting_queue = IF ~partially_alive /\ preempt_rstate_idx = num_entries - 1
                         THEN <<request>> \o @ ELSE @]

\* PreemptLastRunningRequestStateEntry(estate, models, ...): [e, info].
PreemptLastRunningRequestStateEntry(e) ==
  IF e.running_queue = <<>>
    THEN [e |-> [e EXCEPT !.fatal = "ICHECK(!running_queue.empty())"], info |-> [op |-> "fatal"]]
  ELSE
    LET request == e.running_queue[Len(e.running_queue)]
        rstate == e.rstates[request]
        preempt_rstate_idx == LastAliveIdx(rstate)
    IN
    IF request \notin e.request_states
      THEN [e |-> [e EXCEPT !.fatal = "GetRequestState"], info |-> [op |-> "fatal"]]
    ELSE IF preempt_rstate_idx = -1
      THEN [e |-> [e EXCEPT !.fatal = "ICHECK_NE(preempt_rstate_idx, -1)"],
            info |-> [op |-> "fatal"]]
    ELSE
      LET rsentry == rstate.entries[preempt_rstate_idx]
          partially_alive == rsentry.mstates[0].inputs # <<>>
          old_id == rsentry.mstates[0].internal_id
          e1 == [e EXCEPT
                   !.rstates[request].entries[preempt_rstate_idx] =
                      [rsentry EXCEPT
                         !.status = kPending,
                         !.mstates = [m \in DOMAIN rsentry.mstates |->
                                        PreemptedModelState(rsentry.mstates[m],
                                                            requests[request].inputs,
                                                            rsentry.parent_idx)]]]
          e2 == ReleasePreempted(e1, old_id)
          new == GetNewId(e2.id_manager)
          e3 == [e2 EXCEPT
                   !.id_manager = new.idm,
                   !.rstates[request].entries[preempt_rstate_idx].mstates =
                      [m \in DOMAIN @ |-> [@[m] EXCEPT !.internal_id = new.id]],
                   !.notified[<<request, preempt_rstate_idx>>] = <<>>]
          e4 == QueuesAfterPreempt(e3, request, preempt_rstate_idx, partially_alive,
                                   NumEntries(rstate))
      IN [e |-> [e4 EXCEPT !.running_rsentries_changed = TRUE],
          info |-> [op |-> "preempt", request |-> request, idx |-> preempt_rstate_idx,
                    partially_alive |-> partially_alive, old_id |-> old_id,
                    new_id |-> new.id, in_cache |-> HasSequence(e.prefix_cache, old_id)]]

\* The scheduler preempts only while something is running.
Preempt ==
  /\ fatal = "none"
  /\ step_requests = <<>>
  /\ running_queue # <<>>
  /\ LET res == PreemptLastRunningRequestStateEntry(EState) IN
     /\ SetEState(res.e)
     /\ last_op' = res.info
     /\ IF res.info.op = "preempt"
          THEN /\ num_preemptions[<<res.info.request, res.info.idx>>] < MaxPreemptions
               /\ num_preemptions' =
                    [num_preemptions EXCEPT ![<<res.info.request, res.info.idx>>] = @ + 1]
          ELSE UNCHANGED num_preemptions
  /\ callback_log' = <<>>
  /\ extend_log' = <<>>
  /\ UNCHANGED <<requests, step_requests, usage_count>>

\* ------------------------------------------------- the rest of the engine
\* The engine's other actions, as far as they move the state this core reads:
\* submission of a request, prefill of the next entry of the front waiting
\* request, one decode step, and the prefix cache's deferred reclamation.
NewModelState(id, inputs) ==
  [internal_id |-> id, inputs |-> inputs, prefilled_inputs |-> <<>>,
   committed_tokens |-> <<>>, cached_committed_tokens |-> 0, num_prefilled_tokens |-> 0]

NewEntry(id, parent_idx, child_indices, inputs) ==
  [status |-> kPending, parent_idx |-> parent_idx, child_indices |-> child_indices,
   mstates |-> [m \in Models |-> NewModelState(id, inputs)],
   next_callback_token_pos |-> 0]

RECURSIVE AllocIds(_, _)
AllocIds(idm, k) ==
  IF k = 0 THEN [ids |-> <<>>, idm |-> idm]
  ELSE LET g == GetNewId(idm)
           rest == AllocIds(g.idm, k - 1)
       IN [ids |-> <<g.id>> \o rest.ids, idm |-> rest.idm]

\* RequestState of a new request: one entry for n = 1, a root and n children otherwise.
NewRequestState(n, inputs, ids) ==
  IF n = 1
    THEN [entries |-> [i \in {0} |-> NewEntry(ids[1], -1, <<>>, inputs)]]
    ELSE [entries |-> [i \in 0 .. n |->
                         IF i = 0 THEN NewEntry(ids[1], -1, [k \in 1 .. n |-> k], inputs)
                         ELSE NewEntry(ids[i + 1], 0, <<>>, <<>>)]]

TotalEntries ==
  LET added == {k \in EntryKeys : k[2] \in DOMAIN rstates[k[1]].entries} IN Cardinality(added)

AddRequest(r, n, pinned, inputs) ==
  /\ fatal = "none"
  /\ step_requests = <<>>
  /\ requests[r] = NoRequest
  /\ \A q \in RequestIds : q < r => requests[q] # NoRequest
  /\ [n |-> n, pinned |-> pinned, inputs |-> inputs] \in RequestProfiles
  /\ TotalEntries + (IF n = 1 THEN 1 ELSE n + 1) <= MaxEntries
  /\ LET a == AllocIds(id_manager, IF n = 1 THEN 1 ELSE n + 1) IN
     /\ id_manager' = a.idm
     /\ rstates' = [rstates EXCEPT ![r] = NewRequestState(n, inputs, a.ids)]
  /\ requests' = [requests EXCEPT ![r] = [id |-> r, n |-> n, pinned |-> pinned, inputs |-> inputs]]
  /\ request_states' = request_states \cup {r}
  /\ waiting_queue' = Append(waiting_queue, r)
  /\ last_op' = [op |-> "add", request |-> r]
  /\ callback_log' = <<>>
  /\ extend_log' = <<>>
  /\ UNCHANGED <<running_queue, prefix_cache, model_seqs, running_rsentries_changed, fatal,
                 num_preemptions, step_requests, usage_count, release_log, notified>>

\* Most chunks one prefill consumes: a preempted root replays its request's
\* inputs and one chunk of committed tokens.
MaxChunks ==
  LET lens == {Len(p.inputs) : p \in RequestProfiles} IN
  (CHOOSE n \in lens : \A k \in lens : k <= n) + 1

\* The entry of rstate the next prefill works on: the lowest-index entry that
\* is Pending or still has pending inputs.
NeedsPrefill(rsentry) ==
  \/ rsentry.status = kPending
  \/ rsentry.status = kAlive /\ rsentry.mstates[0].inputs # <<>>

\* The token a forward pass samples for a branch (told apart by position).
SampleToken(committed_tokens) == Len(committed_tokens) + 1

\* Prefill of k chunks of the next entry of the front waiting request; a new
\* sequence is entered in the model storage and in the prefix cache (when the
\* engine has one).  A leaf whose prefill completes commits its first sampled
\* token.
Prefill(k) ==
  /\ fatal = "none"
  /\ step_requests = <<>>
  /\ waiting_queue # <<>>
  /\ LET r == Head(waiting_queue)
         todo == {i \in DOMAIN rstates[r].entries : NeedsPrefill(rstates[r].entries[i])}
     IN
     /\ todo # {}
     /\ LET i == CHOOSE x \in todo : \A y \in todo : x <= y
            rsentry == rstates[r].entries[i]
            id == rsentry.mstates[0].internal_id
            len == Len(rsentry.mstates[0].inputs)
            done == k = len
            sample == done /\ rsentry.child_indices = <<>>
                        /\ Len(rsentry.mstates[0].committed_tokens) < MaxCommitted
            new == [rsentry EXCEPT
                      !.status = kAlive,
                      !.mstates = [m \in DOMAIN rsentry.mstates |->
                         [rsentry.mstates[m] EXCEPT
                            !.prefilled_inputs = @ \o SubSeq(rsentry.mstates[m].inputs, 1, k),
                            !.inputs = SubSeq(@, k + 1, Len(@)),
                            !.num_prefilled_tokens = @ + k,
                            !.committed_tokens = IF sample THEN Append(@, SampleToken(@)) ELSE @]]]
            rs == [rstates EXCEPT ![r].entries[i] = new]
        IN
        /\ IF len = 0 THEN k = 0 ELSE k \in 1 .. len
        /\ rstates' = rs
        /\ model_seqs' = IF rsentry.status = kPending
                           THEN [m \in Models |-> model_seqs[m] \cup {id}] ELSE model_seqs
        /\ prefix_cache' = IF prefix_cache.enabled /\ rsentry.status = kPending
                             THEN [prefix_cache EXCEPT !.seqs = @ \cup {id}]
                             ELSE prefix_cache
        /\ running_queue' = IF InSeq(r, running_queue) THEN running_queue
                            ELSE Append(running_queue, r)
        /\ waiting_queue' = IF \E j \in DOMAIN rs[r].entries : NeedsPrefill(rs[r].entries[j])
                              THEN waiting_queue ELSE RemoveFirst(waiting_queue, r)
        /\ step_requests' = <<r>>
        /\ last_op' = [op |-> "prefill", request |-> r, idx |-> i]
  /\ running_rsentries_changed' = TRUE
  /\ callback_log' = <<>>
  /\ extend_log' = <<>>
  /\ UNCHANGED <<requests, request_states, id_manager, fatal, num_preemptions, usage_count,
                 release_log, notified>>

\* The entries a decode step runs: Alive leaves of running requests, fully prefilled.
Decodable(r, i) ==
  /\ r \in request_states
  /\ InSeq(r, running_queue)
  /\ i \in DOMAIN rstates[r].entries
  /\ rstates[r].entries[i].status = kAlive
  /\ rstates[r].entries[i].child_indices = <<>>
  /\ rstates[r].entries[i].mstates[0].inputs = <<>>
  /\ Len(rstates[r].entries[i].mstates[0].committed_tokens) < MaxCommitted

\* One decode step: every running entry commits its sampled token.
Decode ==
  /\ fatal = "none"
  /\ step_requests = <<>>
  /\ \E k \in EntryKeys : Decodable(k[1], k[2])
  /\ rstates' = [r \in DOMAIN rstates |->
                   [entries |-> [i \in DOMAIN rstates[r].entries |->
                      IF Decodable(r, i)
                        THEN [rstates[r].entries[i] EXCEPT
                                !.mstates = [m \in DOMAIN @ |->
                                               [@[m] EXCEPT !.committed_tokens = Append(@, SampleToken(@))]]]
                        ELSE rstates[r].entries[i]]]]
  /\ running_rsentries_changed' = FALSE
  /\ step_requests' = SelectSeq(running_queue,
                                LAMBDA r : \E i \in 0 .. MaxN : Decodable(r, i))
  /\ last_op' = [op |-> "decode"]
  /\ callback_log' = <<>>
  /\ extend_log' = <<>>
  /\ UNCHANGED <<requests, request_states, running_queue, waiting_queue, id_manager,
                 prefix_cache, model_seqs, fatal, num_preemptions, usage_count, release_log,
                 notified>>

\* The prefix cache reclaims a lazily recycled sequence.
ReclaimRecycled(id) ==
  /\ fatal = "none"
  /\ step_requests = <<>>
  /\ id \in prefix_cache.recycling
  /\ prefix_cache' = [prefix_cache EXCEPT !.seqs = @ \ {id}, !.recycling = @ \ {id}]
  /\ model_seqs' = [m \in Models |-> RemoveSequence(model_seqs[m], id)]
  /\ last_op' = [op |-> "reclaim", id |-> id]
  /\ UNCHANGED <<requests, rstates, request_states, running_queue, waiting_queue, id_manager,
                 running_rsentries_changed, fatal, num_preemptions, step_requests,
                 usage_count, release_log, notified>>
  /\ callback_log' = <<>>
  /\ extend_log' = <<>>

\* ----------------------------------------------------------- specification
Init ==
  /\ requests = [r \in RequestIds |-> NoRequest]
  /\ rstates = [r \in RequestIds |-> NoState]
  /\ request_states = {}
  /\ running_queue = <<>>
  /\ waiting_queue = <<>>
  /\ id_manager = [available_ids |-> <<>>, id_cnt |-> 0]
  /\ prefix_cache \in {[enabled |-> b, seqs |-> {}, recycling |-> {}] : b \in BOOLEAN}
  /\ model_seqs = [m \in Models |-> {}]
  /\ running_rsentries_changed = FALSE
  /\ fatal = "none"
  /\ num_preemptions = [k \in EntryKeys |-> 0]
  /\ step_requests = <<>>
  /\ callback_log = <<>>
  /\ extend_log = <<>>
  /\ usage_count = [r \in RequestIds |-> 0]
  /\ release_log = [k \in EntryKeys |-> [cache |-> 0, model |-> 0, freed |-> 0]]
  /\ notified = [k \in EntryKeys |-> <<>>]
  /\ last_op = [op |-> "init"]

Next ==
  \/ \E r \in RequestIds, p \in RequestProfiles :
       p.n \in BranchCounts /\ AddRequest(r, p.n, p.pinned, p.inputs)
  \/ \E k \in 0 .. MaxChunks : Prefill(k)
  \/ Decode
  \/ PostProcess
  \/ Preempt
  \/ \E id \in prefix_cache.recycling : ReclaimRecycled(id)

Spec == Init /\ [][Next]_vars

\* =================================================================== claims
\* The entries that exist (their request was submitted).
Entries == {k \in EntryKeys : k[2] \in DOMAIN rstates[k[1]].entries}
Entry(k) == rstates[k[1]].entries[k[2]]
Children(k) == {<<k[1], Entry(k).child_indices[j]>> : j \in 1 .. Len(Entry(k).child_indices)}
StatusRank(status) == IF status = kPending THEN 0 ELSE IF status = kAlive THEN 1 ELSE 2
RootFinished(r) == 0 \in DOMAIN rstates[r].entries /\ rstates[r].entries[0].status = kFinished

\* C1: in every reachable state an entry whose status is Finished has no
\* child whose status is not Finished (an ancestor is marked Finished only
\* once all of its children are, and the climb stops at the first ancestor
\* with a non-Finished child).
C1_FinishedHasNoLiveChild ==
  \A k \in Entries :
    Entry(k).status = kFinished => \A c \in Children(k) : Entry(c).status = kFinished

\* C1 witness: a finish propagation has marked a parent Finished, and another
\* has stopped below a root that still has a non-Finished child.
C1_Witness ==
  /\ last_op.op = "postproc"
  /\ \E k \in Entries :
       /\ Children(k) # {}
       /\ Entry(k).status = kFinished
       /\ \A c \in Children(k) : Entry(c).status = kFinished


\* The usage events for request r in the batches of the post-step run just done.
UsageEventsIn(log, r) ==
  {p \in {q \in (1 .. Len(log)) \X (1 .. MaxN + 2) : q[2] <= Len(log[q[1]])} :
     log[p[1]][p[2]].kind = "usage" /\ log[p[1]][p[2]].request_id = r}

\* C2, per state: a request has had at most one usage event, and has had one
\* exactly when its root is Finished.
C2_UsageOnceState ==
  \A r \in RequestIds :
    /\ usage_count[r] <= 1
    /\ usage_count[r] = 1 <=> RootFinished(r)

\* C2, per step: a usage event for r is emitted in exactly the step in which
\* the root of r becomes Finished; in that step r leaves the running queue
\* and the request-state map; in a step in which the root stays non-Finished
\* no usage event is emitted and a post-step run removes r from neither.
C2_UsageOnceStep ==
  \A r \in RequestIds :
    LET becomes == ~RootFinished(r) /\ RootFinished(r)' IN
    /\ becomes <=> usage_count'[r] = usage_count[r] + 1
    /\ ~becomes => usage_count'[r] = usage_count[r]
    /\ becomes =>
         /\ last_op'.op = "postproc"
         /\ InSeq(r, running_queue) /\ r \in request_states
         /\ ~InSeq(r, running_queue') /\ r \notin request_states'
         /\ Cardinality(UsageEventsIn(callback_log', r)) = 1
    /\ ~becomes =>
         /\ UsageEventsIn(callback_log', r) = {}
         /\ last_op'.op = "postproc" =>
              /\ r \in request_states => r \in request_states'
              /\ InSeq(r, running_queue) => InSeq(r, running_queue')

\* C2: over the lifetime of a request the usage event is emitted exactly
\* once, in the step in which its root becomes Finished, together with the
\* removal from the running queue and the request-state map.
C2_UsageExactlyOnce == [](C2_UsageOnceState) /\ [][C2_UsageOnceStep]_vars

\* C2 witness: a request with two branches has finished and its usage event is
\* in the batch.
C2_Witness ==
  \E r \in RequestIds :
    /\ requests[r] # NoRequest /\ requests[r].n = 2
    /\ RootFinished(r)
    /\ usage_count[r] = 1
    /\ last_op.op = "postproc"
    /\ Cardinality(UsageEventsIn(callback_log, r)) = 1
    /\ r \notin request_states

\* The entries that own a sequence id: those of mapped requests that are not Finished.
LiveEntries == {k \in Entries : k[1] \in request_states /\ Entry(k).status # kFinished}
IdOf(k) == Entry(k).mstates[0].internal_id

\* C3: a sequence id is held by at most one live (non-Finished) entry, so the
\* id preemption obtains from GetNewId is held by no other live entry, and no
\* id released to the allocator's pool is held by a live entry.
C3_OneLiveOwnerPerId ==
  /\ \A k1, k2 \in LiveEntries : k1 # k2 => IdOf(k1) # IdOf(k2)
  /\ \A j \in 1 .. Len(id_manager.available_ids) :
       \A k \in LiveEntries : IdOf(k) # id_manager.available_ids[j]
  /\ last_op.op = "preempt" =>
       \A k \in LiveEntries :
         k # <<last_op.request, last_op.idx>> => IdOf(k) # last_op.new_id

\* C3 witness: preemption has given an entry an id that finish propagation
\* had recycled, while another entry is live.
C3_Witness ==
  /\ last_op.op = "preempt"
  /\ \E k \in Entries : Entry(k).status = kFinished /\ IdOf(k) = last_op.new_id
  /\ Cardinality(LiveEntries) >= 2


NoRelease == [cache |-> 0, model |-> 0, freed |-> 0]
BecomesFinished(k) == Entry(k).status # kFinished /\ Entry(k)'.status = kFinished
Pinned(k) == requests[k[1]].pinned

\* C4 as claimed: every entry that has become Finished had its sequence
\* released exactly once, through the prefix cache or from the models (with
\* the id recycled), never both, never twice, never zero times.
C4_ReleasedExactlyOnce ==
  \A k \in Entries :
    Entry(k).status = kFinished =>
      /\ release_log[k].cache + release_log[k].model = 1
      /\ release_log[k].freed = release_log[k].model

\* C4, per state: a Finished entry was released at most once, and exactly
\* once unless its request is pinned and its sequence is resident in the
\* prefix cache (then it was not released); other entries were not released.
C4_ReleaseState ==
  \A k \in Entries :
    IF Entry(k).status # kFinished THEN release_log[k] = NoRelease
    ELSE IF Pinned(k) /\ IdOf(k) \in prefix_cache.seqs /\ IdOf(k) \notin prefix_cache.recycling
      THEN release_log[k] = NoRelease
    ELSE /\ release_log[k].cache + release_log[k].model = 1
         /\ release_log[k].freed = release_log[k].model

\* C4, per step: the release is made in the step in which the entry becomes Finished.
C4_ReleaseStep ==
  \A k \in Entries :
    BecomesFinished(k) =>
      IF IdOf(k) \in prefix_cache.seqs
        THEN IF Pinned(k)
               THEN /\ release_log'[k] = NoRelease
                    /\ IdOf(k) \in prefix_cache'.seqs \ prefix_cache'.recycling
               ELSE /\ release_log'[k] = [cache |-> 1, model |-> 0, freed |-> 0]
                    /\ IdOf(k) \in prefix_cache'.recycling
                    /\ ~InSeq(IdOf(k), id_manager'.available_ids)
        ELSE /\ release_log'[k] = [cache |-> 0, model |-> 1, freed |-> 1]
             /\ \A m \in Models : IdOf(k) \notin model_seqs'[m]
             /\ InSeq(IdOf(k), id_manager'.available_ids)

\* C4 (amended): every entry that becomes Finished has its sequence released
\* at most once, in the step in which it becomes Finished: recycled through
\* the prefix cache, or removed from every model with its id recycled, never
\* both; it is not released at all when the request is pinned and the
\* sequence is resident in the prefix cache.
C4_ReleasedOnceUnlessPinned == [](C4_ReleaseState) /\ [][C4_ReleaseStep]_vars

\* C4 witness: an entry of a pinned request has become Finished while its
\* sequence is resident in the prefix cache.
C4_Witness ==
  \E k \in Entries :
    /\ Entry(k).status = kFinished
    /\ Pinned(k)
    /\ IdOf(k) \in prefix_cache.seqs
    /\ release_log[k] = NoRelease

\* C5 as claimed: no step moves an entry's status backwards along
\* Pending -> Alive -> Finished.
C5_StatusMonotonic ==
  [][\A k \in Entries : StatusRank(Entry(k)'.status) >= StatusRank(Entry(k).status)]_vars

\* C5 (amended): no step moves an entry out of Finished; the only backward
\* move is Alive -> Pending, made by preemption on the entry it evicts; the
\* post-step pipeline and finish propagation never move a status backwards.
C5_OnlyPreemptionReverts ==
  [][\A k \in Entries :
       /\ Entry(k).status = kFinished => Entry(k)'.status = kFinished
       /\ StatusRank(Entry(k)'.status) < StatusRank(Entry(k).status) =>
            /\ Entry(k).status = kAlive /\ Entry(k)'.status = kPending
            /\ last_op'.op = "preempt"
            /\ k = <<last_op'.request, last_op'.idx>>]_vars

\* C5 witness: preemption has put an Alive entry back to Pending beside a Finished sibling.
C5_Witness ==
  /\ last_op.op = "preempt"
  /\ Entry(<<last_op.request, last_op.idx>>).status = kPending
  /\ \E k \in Entries : k[1] = last_op.request /\ Entry(k).status = kFinished


\* Request r contributes to the step whose inputs are fin and extra: one of
\* its reported branches has tokens not yet reported, extra text or a finish reason.
Contributes(r, fin, extra) ==
  \E i \in 0 .. requests[r].n - 1 :
    LET rsentry == rstates[r].entries[IF requests[r].n = 1 THEN 0 ELSE i + 1] IN
    \/ Len(rsentry.mstates[0].committed_tokens) > rsentry.next_callback_token_pos
    \/ <<r, i>> \in fin
    \/ <<r, i>> \in extra

KindIds(batch, kind) ==
  LET sel == SelectSeq(batch, LAMBDA ev : ev.kind = kind) IN
  [j \in 1 .. Len(sel) |-> sel[j].request_id]

\* C6, per state: the callback was invoked at most once by the run just done,
\* and never with an empty batch.
C6_CallbackState ==
  /\ Len(callback_log) <= 1
  /\ \A j \in 1 .. Len(callback_log) : callback_log[j] # <<>>

\* C6, per post-step run: the callback is invoked exactly when some request of
\* the step contributed; the one batch holds the delta event of every
\* contributing request, in the order the requests were iterated, and the
\* usage event of every request whose root became Finished, and nothing else.
C6_CallbackStep ==
  last_op'.op = "postproc" =>
    LET reqs == last_op'.requests
        contributors == SelectSeq(reqs, LAMBDA r : Contributes(r, last_op'.fin, last_op'.extra))
        done == {r \in RequestIds : ~RootFinished(r) /\ RootFinished(r)'}
    IN
    /\ reqs = step_requests
    /\ Len(callback_log') = IF contributors # <<>> THEN 1 ELSE 0
    /\ contributors # <<>> =>
         /\ KindIds(callback_log'[1], "delta") = contributors
         /\ {KindIds(callback_log'[1], "usage")[j] :
               j \in 1 .. Len(KindIds(callback_log'[1], "usage"))} = done
         /\ Len(callback_log'[1]) = Len(contributors) + Cardinality(done)

\* C6: a post-step run invokes the stream callback at most once: once, with the
\* whole batch of the step's delta and usage events, when an event was
\* collected, and not at all when no branch contributed tokens, extra text or
\* a finish reason; the delta events are in the order the requests were iterated.
C6_CallbackOncePerStep == [](C6_CallbackState) /\ [][C6_CallbackStep]_vars

\* C6 witness: one callback with the delta events of two requests, in order,
\* and a usage event.
C6_Witness ==
  /\ last_op.op = "postproc"
  /\ Len(last_op.requests) = 2
  /\ Len(callback_log) = 1
  /\ KindIds(callback_log[1], "delta") = last_op.requests
  /\ Len(KindIds(callback_log[1], "usage")) >= 1

\* C7 as claimed: in every reachable state cached_committed_tokens <=
\* committed_tokens.size() - 1 for every entry's canonical model state.
C7_WatermarkBelowSize ==
  \A k \in Entries :
    Entry(k).mstates[0].cached_committed_tokens <= Len(Entry(k).mstates[0].committed_tokens) - 1

\* C7 (amended): in every reachable state, for every entry's canonical model
\* state, 0 <= cached_committed_tokens, and cached_committed_tokens <=
\* committed_tokens.size() - 1 whenever committed_tokens is non-empty; while
\* committed_tokens is empty the watermark is 0.
C7_WatermarkBelowSizeWhenNonEmpty ==
  \A k \in Entries :
    LET m0 == Entry(k).mstates[0] IN
    IF m0.committed_tokens = <<>>
      THEN m0.cached_committed_tokens = 0
      ELSE /\ 0 <= m0.cached_committed_tokens
           /\ m0.cached_committed_tokens <= Len(m0.committed_tokens) - 1

\* C7 witness: a sync has advanced the watermark of an entry to size - 1 > 0.
C7_Witness ==
  /\ last_op.op = "postproc"
  /\ \E k \in Entries :
       /\ k[1] \in {last_op.requests[j] : j \in 1 .. Len(last_op.requests)}
       /\ Len(Entry(k).mstates[0].committed_tokens) >= 2
       /\ Entry(k).mstates[0].cached_committed_tokens = Len(Entry(k).mstates[0].committed_tokens) - 1

\* The decode-part ExtendSequence calls of the run just done for entry k.
DecodeCalls(log, k) == SelectSeq(log, LAMBDA call : call.part = "decode" /\ call.key = k)

\* C8, per state: the decode tokens notified under an entry's current
\* sequence id are the committed tokens below the watermark, each once, in order.
C8_NotifiedState ==
  \A k \in Entries :
    notified[k] = SubSeq(Entry(k).mstates[0].committed_tokens, 1,
                         Entry(k).mstates[0].cached_committed_tokens)

\* C8, per sync: every entry of the synced requests ends with an empty
\* prefilled_inputs and, when committed_tokens is non-empty, with
\* cached_committed_tokens = size - 1; the decode part passes ExtendSequence
\* exactly committed_tokens[old watermark .. size - 2] under the entry's id.
C8_SyncStep ==
  last_op'.op = "postproc" =>
    \A k \in Entries :
      InSeq(k[1], last_op'.requests) =>
        LET m0 == Entry(k).mstates[0]
            n0 == Entry(k)'.mstates[0]
            calls == DecodeCalls(extend_log', k)
        IN
        /\ n0.prefilled_inputs = <<>>
        /\ n0.committed_tokens = m0.committed_tokens
        /\ m0.committed_tokens # <<>> => n0.cached_committed_tokens = Len(m0.committed_tokens) - 1
        /\ IF m0.cached_committed_tokens < Len(m0.committed_tokens) - 1
             THEN /\ Len(calls) = 1
                  /\ calls[1].id = m0.internal_id
                  /\ calls[1].token_ids = SubSeq(m0.committed_tokens,
                                                 m0.cached_committed_tokens + 1,
                                                 Len(m0.committed_tokens) - 1)
             ELSE calls = <<>>

\* The number of times token t was passed to ExtendSequence for entry k by
\* the sync just done, over its prefill part and its decode part.
TimesNotified(log, k, t) ==
  LET calls == SelectSeq(log, LAMBDA call : call.key = k)
      count == [j \in 1 .. Len(calls) |->
                  Cardinality({p \in DOMAIN calls[j].token_ids : calls[j].token_ids[p] = t})]
  IN (IF Len(calls) >= 1 THEN count[1] ELSE 0) + (IF Len(calls) >= 2 THEN count[2] ELSE 0)

\* C8, per state: no committed token of an entry was passed to ExtendSequence
\* more than once by the sync just done (the sampled token ids are distinct
\* from each other and from the prompt's).
C8_OncePerSync ==
  \A k \in Entries :
    \A p \in DOMAIN Entry(k).mstates[0].committed_tokens :
      TimesNotified(extend_log, k, Entry(k).mstates[0].committed_tokens[p]) <= 1

\* C8: right after a prefix-cache sync every entry of the synced requests with
\* non-empty committed_tokens has cached_committed_tokens = size - 1 and an
\* empty prefilled_inputs, and the decode part hands ExtendSequence exactly
\* committed_tokens[old watermark .. size - 2], so that under an entry's
\* sequence id every committed token but the newest is notified once, in order.
C8_SyncNotifiesEachTokenOnce ==
  [](C8_NotifiedState /\ C8_OncePerSync) /\ [][C8_SyncStep]_vars

\* C9, per preemption: every model state of the evicted entry has inputs
\* rebuilt from the request inputs and the committed token ids, and its
\* counters reset; the committed tokens are kept.
C9_RebuildStep ==
  last_op'.op = "preempt" =>
    LET r == last_op'.request
        i == last_op'.idx
        old == rstates[r].entries[i]
        new == rstates'[r].entries[i]
        request_inputs == requests[r].inputs
        last == request_inputs[Len(request_inputs)]
    IN
    \A m \in DOMAIN old.mstates :
      LET committed == old.mstates[m].committed_tokens
          inputs == new.mstates[m].inputs
      IN
      /\ IF old.parent_idx = -1
           THEN /\ FlattenTokenIds(inputs) = FlattenTokenIds(request_inputs) \o committed
                /\ IF last.kind = "token"
                     THEN /\ Len(inputs) = Len(request_inputs)
                          /\ SubSeq(inputs, 1, Len(inputs) - 1)
                               = SubSeq(request_inputs, 1, Len(request_inputs) - 1)
                          /\ inputs[Len(inputs)] = TokenData(last.token_ids \o committed)
                     ELSE IF committed # <<>>
                            THEN inputs = Append(request_inputs, TokenData(committed))
                            ELSE inputs = request_inputs
           ELSE /\ FlattenTokenIds(inputs) = committed
                /\ inputs = IF committed # <<>> THEN <<TokenData(committed)>> ELSE <<>>
      /\ new.mstates[m].num_prefilled_tokens = 0
      /\ new.mstates[m].prefilled_inputs = <<>>
      /\ new.mstates[m].cached_committed_tokens = 0
      /\ new.mstates[m].committed_tokens = committed

\* C9: preemption rebuilds the inputs of the evicted entry: for a root, the
\* request inputs with the committed token ids merged into a trailing token
\* chunk or appended as a new token chunk; for a non-root, the committed token
\* ids only. The flattened tokens equal original ++ committed (root) or
\* committed (non-root); num_prefilled_tokens is 0, prefilled_inputs is empty
\* and the watermark is 0.
C9_PreemptionRebuildsInputs == [][C9_RebuildStep]_vars

\* C9 witness: a root whose request ends in a non-token chunk was evicted with
\* two committed tokens, which became one new trailing token chunk.
C9_Witness ==
  /\ last_op.op = "preempt"
  /\ last_op.idx = 0
  /\ LET r == last_op.request
         m0 == rstates[r].entries[0].mstates[0]
     IN /\ requests[r].inputs[Len(requests[r].inputs)].kind # "token"
        /\ Len(m0.committed_tokens) >= 2
        /\ Len(m0.inputs) = Len(requests[r].inputs) + 1

\* C9 witness for the other two cases: a non-root entry was evicted with
\* committed tokens, or a root whose request ends in a token chunk.
C9_WitnessNonRoot ==
  /\ last_op.op = "preempt"
  /\ last_op.idx > 0
  /\ rstates[last_op.request].entries[last_op.idx].mstates[0].inputs # <<>>

\* The case of C10: the request at the back of the running queue has the root
\* as its only Alive entry, and the root has no pending inputs.
RootOnlyAlive(r) ==
  /\ rstates[r].entries[0].status = kAlive
  /\ \A i \in DOMAIN rstates[r].entries : i # 0 => rstates[r].entries[i].status # kAlive
  /\ rstates[r].entries[0].mstates[0].inputs = <<>>

\* C10 as claimed, per preemption: the request leaves the running queue and is
\* at the front of the waiting queue, the root's id changes and the old id is
\* held by neither the prefix cache nor any model, for every branch count.
C10_RootPreemptStep ==
  (last_op'.op = "preempt" /\ RootOnlyAlive(last_op'.request)) =>
    LET r == last_op'.request
        old_id == rstates[r].entries[0].mstates[0].internal_id
    IN
    /\ ~InSeq(r, running_queue')
    /\ running_queue' = SubSeq(running_queue, 1, Len(running_queue) - 1)
    /\ waiting_queue' # <<>>
    /\ Head(waiting_queue') = r
    /\ rstates'[r].entries[0].mstates[0].internal_id # old_id
    /\ ~HasSequence(prefix_cache', old_id)
    /\ \A m \in Models : old_id \notin model_seqs'[m]

\* C10 as claimed: preempting a request whose only Alive entry is the root,
\* not partially alive, removes it from the running queue's tail, puts it at
\* the front of the waiting queue, changes the root's sequence id and leaves
\* the old id in neither the prefix cache nor a model, for every n.
C10_RootPreemptRequeues == [][C10_RootPreemptStep]_vars


\* Request r produced new tokens or extra text in the step whose input is extra.
ProducedOutput(r, extra) ==
  \E i \in 0 .. requests[r].n - 1 :
    LET rsentry == rstates[r].entries[IF requests[r].n = 1 THEN 0 ELSE i + 1] IN
    \/ Len(rsentry.mstates[0].committed_tokens) > rsentry.next_callback_token_pos
    \/ <<r, i>> \in extra

\* The events of the run just done, over all callback invocations.
RECURSIVE Flatten(_)
Flatten(batches) == IF batches = <<>> THEN <<>> ELSE Head(batches) \o Flatten(Tail(batches))

\* C11, per post-step run without a finish reason: the dirty flag stays false
\* when it was false, the queues, the request-state map, every entry status
\* and the allocator are unchanged, and the events are one delta event per
\* request that produced tokens or extra text, without finish reason or usage.
C11_NoFinishStep ==
  (last_op'.op = "postproc" /\ last_op'.fin = {}) =>
    LET events == Flatten(callback_log') IN
    /\ ~running_rsentries_changed => ~running_rsentries_changed'
    /\ running_queue' = running_queue
    /\ waiting_queue' = waiting_queue
    /\ request_states' = request_states
    /\ id_manager' = id_manager
    /\ fatal' = "none"
    /\ \A r \in RequestIds :
         /\ DOMAIN rstates'[r].entries = DOMAIN rstates[r].entries
         /\ \A i \in DOMAIN rstates[r].entries :
              rstates'[r].entries[i].status = rstates[r].entries[i].status
    /\ KindIds(events, "usage") = <<>>
    /\ KindIds(events, "delta")
         = SelectSeq(last_op'.requests, LAMBDA r : ProducedOutput(r, last_op'.extra))
    /\ \A j \in 1 .. Len(events) :
         \A b \in DOMAIN events[j].group_finish_reason :
           events[j].group_finish_reason[b] = "none"

\* C11: a post-step run in which no branch reports a finish reason takes only
\* the delta emission path: the dirty flag, false before, is false after; the
\* running queue, the waiting queue, the request-state map, every entry status
\* and the id allocator are unchanged; one delta event is emitted per request
\* that produced new tokens or extra text, with no finish reason, and no usage event.
C11_NoFinishFrame == [][C11_NoFinishStep]_vars

\* C11 witness: a decode step's run without finish, dirty flag false, that
\* emitted one delta event carrying new tokens of a running request.
C11_Witness ==
  /\ last_op.op = "postproc"
  /\ last_op.fin = {}
  /\ ~running_rsentries_changed
  /\ running_queue # <<>>
  /\ Len(callback_log) = 1
  /\ Len(callback_log[1]) = 1
  /\ callback_log[1][1].kind = "delta"
  /\ \E b \in DOMAIN callback_log[1][1].group_delta_token_ids :
       callback_log[1][1].group_delta_token_ids[b] # <<>>


\* All n branches of request r report a finish reason in the step with input fin.
AllBranchesFinish(r, fin) ==
  /\ requests[r].n > 1
  /\ \A i \in 0 .. requests[r].n - 1 : <<r, i>> \in fin

\* The positions in batch of the events of the given kind for request r.
EventPositions(batch, kind, r) ==
  {j \in 1 .. Len(batch) : batch[j].kind = kind /\ batch[j].request_id = r}

\* C12, per post-step run: for a request with n > 1 whose branches all finish
\* in this step, the batch holds one delta event with all n finish reasons and,
\* after it, one usage event; the request leaves the running queue and the
\* request-state map, and the root and all children are Finished.
C12_AllFinishStep ==
  last_op'.op = "postproc" =>
    \A r \in RequestIds :
      (InSeq(r, last_op'.requests) /\ AllBranchesFinish(r, last_op'.fin)) =>
        /\ Len(callback_log') = 1
        /\ LET batch == callback_log'[1]
               deltas == EventPositions(batch, "delta", r)
               usages == EventPositions(batch, "usage", r)
           IN /\ Cardinality(deltas) = 1
              /\ Cardinality(usages) = 1
              /\ \A d \in deltas : \A u \in usages : d < u
              /\ \A d \in deltas :
                   /\ Len(batch[d].group_finish_reason) = requests[r].n
                   /\ \A b \in 1 .. requests[r].n : batch[d].group_finish_reason[b] # "none"
        /\ ~InSeq(r, running_queue')
        /\ r \notin request_states'
        /\ \A i \in DOMAIN rstates'[r].entries : rstates'[r].entries[i].status = kFinished

\* C12: when all n branches of a request with n > 1 report a finish reason in
\* the same step, the callback's batch contains exactly one delta event for the
\* request, carrying all n finish reasons, followed later by exactly one usage
\* event for it; afterwards the request is in neither the running queue nor
\* the request-state map, and the root and all children are Finished.
C12_AllBranchesFinishTogether == [][C12_AllFinishStep]_vars

\* C12 witness: both branches of a request with n = 2 finished in the run just done.
C12_Witness ==
  /\ last_op.op = "postproc"
  /\ \E r \in RequestIds :
       /\ requests[r] # NoRequest
       /\ requests[r].n = 2
       /\ {<<r, 0>>, <<r, 1>>} \subseteq last_op.fin
       /\ Len(callback_log) = 1
       /\ Len(callback_log[1]) = 2
       /\ r \notin request_states


\* C13, per post-step run: every delta event of request r has per-branch arrays
\* of n elements, element i holding what entry 0 (n = 1) or entry i + 1 (n > 1)
\* had to report, also when that is nothing; and a leaf entry becomes Finished
\* in the run exactly when it is the entry of a branch that reported a finish reason.
C13_BranchStep ==
  last_op'.op = "postproc" =>
    \A r \in RequestIds :
      InSeq(r, last_op'.requests) =>
        LET n == requests[r].n
            entry_of == [i \in 0 .. n - 1 |-> IF n = 1 THEN 0 ELSE i + 1]
            events == Flatten(callback_log')
        IN
        /\ \A d \in EventPositions(events, "delta", r) :
             /\ Len(events[d].group_delta_token_ids) = n
             /\ Len(events[d].group_finish_reason) = n
             /\ Len(events[d].group_extra_prefix_string) = n
             /\ \A i \in 0 .. n - 1 :
                  LET rsentry == rstates[r].entries[entry_of[i]] IN
                  /\ events[d].group_delta_token_ids[i + 1]
                       = SubSeq(rsentry.mstates[0].committed_tokens,
                                rsentry.next_callback_token_pos + 1,
                                Len(rsentry.mstates[0].committed_tokens))
                  /\ (events[d].group_finish_reason[i + 1] # "none") <=> (<<r, i>> \in last_op'.fin)
                  /\ (events[d].group_extra_prefix_string[i + 1] # "") <=> (<<r, i>> \in last_op'.extra)
        /\ \A j \in DOMAIN rstates[r].entries :
             rstates[r].entries[j].child_indices = <<>> =>
               ((rstates[r].entries[j].status # kFinished /\ rstates'[r].entries[j].status = kFinished)
                  <=> \E i \in 0 .. n - 1 : entry_of[i] = j /\ <<r, i>> \in last_op'.fin)

\* C13: reported branch i of a request with branch count n is read from entry 0
\* when n = 1 and from entry i + 1 when n > 1 (the root of an n > 1 request is
\* never reported); every delta event carries per-branch arrays of exactly n
\* elements in branch order, with a position for each branch that contributed
\* nothing; an entry joins the newly finished exactly when its branch reported
\* a finish reason.
C13_BranchEntryMapping == [][C13_BranchStep]_vars

\* C13 witness: a delta event of an n = 2 request in which branch 0 contributed
\* nothing and branch 1, read from entry 2, contributed a token.
C13_Witness ==
  /\ last_op.op = "postproc"
  /\ Len(callback_log) = 1
  /\ \E d \in DOMAIN callback_log[1] :
       /\ callback_log[1][d].kind = "delta"
       /\ Len(callback_log[1][d].group_delta_token_ids) = 2
       /\ callback_log[1][d].group_delta_token_ids[1] = <<>>
       /\ callback_log[1][d].group_delta_token_ids[2] # <<>>


\* The entries that become Finished in a step, and among them those whose
\* sequence is resident in the prefix cache.
Finishing == {k \in Entries : BecomesFinished(k)}
Resident(k) == HasSequence(prefix_cache, IdOf(k))
SeqToSet(seq) == {seq[j] : j \in DOMAIN seq}

\* C14, per step in which entries become Finished: the prefix cache changes
\* only by the lazy recycling of the resident sequences of unpinned requests;
\* the models lose, and the allocator regains, exactly the sequences that are
\* not resident in the prefix cache.
C14_ReleaseFrameStep ==
  Finishing # {} =>
    LET lazy == {IdOf(k) : k \in {f \in Finishing : Resident(f) /\ ~Pinned(f)}}
        direct == {IdOf(k) : k \in {f \in Finishing : ~Resident(f)}}
    IN
    /\ prefix_cache'.seqs = prefix_cache.seqs
    /\ prefix_cache'.recycling = prefix_cache.recycling \cup lazy
    /\ \A m \in Models : model_seqs'[m] = model_seqs[m] \ direct
    /\ id_manager'.id_cnt = id_manager.id_cnt
    /\ Len(id_manager'.available_ids) = Len(id_manager.available_ids) + Cardinality(direct)
    /\ SeqToSet(id_manager'.available_ids) = SeqToSet(id_manager.available_ids) \cup direct
    /\ (\A k \in Finishing : Resident(k) /\ Pinned(k)) =>
         /\ prefix_cache' = prefix_cache
         /\ model_seqs' = model_seqs
         /\ id_manager' = id_manager

\* C14: when an entry becomes Finished and its sequence is resident in the
\* prefix cache, a pinned request leaves the prefix cache, every model's
\* sequence storage and the id allocator unchanged, and an unpinned one has
\* the sequence recycled lazily in the prefix cache with model storage and
\* allocator untouched; only a sequence that is not resident is removed from
\* every model and has its id recycled in the allocator.
C14_ReleaseFrame == [][C14_ReleaseFrameStep]_vars

\* C14 witness: an entry of an unpinned request has become Finished; its
\* sequence is lazily recycled in the prefix cache and still held by the models.
C14_Witness ==
  /\ last_op.op = "postproc"
  /\ last_op.fin # {}
  /\ \E k \in Entries :
       /\ Entry(k).status = kFinished
       /\ ~Pinned(k)
       /\ IdOf(k) \in prefix_cache.recycling
       /\ \A m \in Models : IdOf(k) \in model_seqs[m]
       /\ ~InSeq(IdOf(k), id_manager.available_ids)


\* C15, per preemption: the sequence released is the one the entry held
\* before (eagerly recycled in the prefix cache when resident there, removed
\* from every model otherwise) and nothing else is released; the fresh id is
\* the one the allocator hands out next, every model state of the entry holds
\* it, and it differs from the released id.
C15_ReleaseThenReassignStep ==
  last_op'.op = "preempt" =>
    LET r == last_op'.request
        i == last_op'.idx
        old == rstates[r].entries[i].mstates[0].internal_id
        fresh == rstates'[r].entries[i].mstates[0].internal_id
    IN
    /\ \A m \in DOMAIN rstates'[r].entries[i].mstates :
         rstates'[r].entries[i].mstates[m].internal_id = fresh
    /\ fresh # old
    /\ fresh = GetNewId(id_manager).id
    /\ id_manager' = GetNewId(id_manager).idm
    /\ ~InSeq(old, id_manager'.available_ids)
    /\ IF HasSequence(prefix_cache, old)
         THEN /\ prefix_cache'.seqs = prefix_cache.seqs \ {old}
              /\ prefix_cache'.recycling = prefix_cache.recycling \ {old}
         ELSE prefix_cache' = prefix_cache
    /\ \A m \in Models : model_seqs'[m] = model_seqs[m] \ {old}

\* C15: within one preemption the old sequence id of the evicted entry is
\* released (eagerly recycled in the prefix cache if resident there, otherwise
\* removed from every model) before the fresh id is obtained from the
\* allocator, so that the release acts on the old id and never on the fresh
\* one; afterwards every branch-model state of the evicted entry holds the
\* same fresh id, which differs from the released one.
C15_ReleaseBeforeFreshId == [][C15_ReleaseThenReassignStep]_vars

\* C15 witness: an entry whose sequence was resident in the prefix cache and
\* held by the models was evicted and holds a fresh id in both model states.
C15_Witness ==
  /\ last_op.op = "preempt"
  /\ last_op.in_cache
  /\ last_op.new_id # last_op.old_id
  /\ ~HasSequence(prefix_cache, last_op.old_id)
  /\ \A m \in DOMAIN rstates[last_op.request].entries[last_op.idx].mstates :
       rstates[last_op.request].entries[last_op.idx].mstates[m].internal_id = last_op.new_id
  /\ Cardinality(DOMAIN rstates[last_op.request].entries[last_op.idx].mstates) >= 2


\* ------------------------------------------- callers outside the contract
\* The handlers of this file called in states their callers are meant to
\* exclude.  Each call runs the handler as it is; the only thing added is the
\* caller's mistake.

\* Preemption is invoked although nothing is running.
PreemptEmptyQueue ==
  /\ fatal = "none"
  /\ step_requests = <<>>
  /\ running_queue = <<>>
  /\ SetEState(PreemptLastRunningRequestStateEntry(EState).e)
  /\ last_op' = [op |-> "misuse", call |-> "preempt_empty"]
  /\ callback_log' = <<>>
  /\ extend_log' = <<>>
  /\ UNCHANGED <<requests, num_preemptions, step_requests, usage_count>>

\* The estate a caller hands over after putting request r, which has no Alive
\* entry, at the back of the running queue.
WithIdleRequestRunning(e, r) == [e EXCEPT !.running_queue = Append(@, r)]

\* Preemption is invoked with a back request that has no Alive entry.
PreemptIdleRequest(r) ==
  /\ fatal = "none"
  /\ step_requests = <<>>
  /\ r \in request_states
  /\ ~InSeq(r, running_queue)
  /\ \A i \in DOMAIN rstates[r].entries : rstates[r].entries[i].status # kAlive
  /\ SetEState(PreemptLastRunningRequestStateEntry(WithIdleRequestRunning(EState, r)).e)
  /\ last_op' = [op |-> "misuse", call |-> "preempt_idle", request |-> r]
  /\ callback_log' = <<>>
  /\ extend_log' = <<>>
  /\ UNCHANGED <<requests, num_preemptions, step_requests, usage_count>>

\* Finish propagation is handed the entry key, which is not a leaf, after the
\* entries of before (none, or one leaf that may finish).
FinishNonLeaf(before, key) ==
  /\ fatal = "none"
  /\ step_requests = <<>>
  /\ key[1] \in request_states
  /\ key[2] \in DOMAIN rstates[key[1]].entries
  /\ rstates[key[1]].entries[key[2]].child_indices # <<>>
  /\ rstates[key[1]].entries[key[2]].status # kFinished
  /\ \A j \in 1 .. Len(before) :
       /\ before[j][1] \in request_states
       /\ before[j][2] \in DOMAIN rstates[before[j][1]].entries
       /\ rstates[before[j][1]].entries[before[j][2]].child_indices = <<>>
       /\ rstates[before[j][1]].entries[before[j][2]].status = kAlive
  /\ LET res == ProcessFinishedRequestStateEntries(before \o <<key>>, EState, <<>>) IN
     /\ SetEState(res.e)
     /\ usage_count' = [r \in RequestIds |-> usage_count[r] + CountUsage(res.out, r)]
  /\ last_op' = [op |-> "misuse", call |-> "finish", key |-> key, before |-> before]
  /\ callback_log' = <<>>
  /\ extend_log' = <<>>
  /\ UNCHANGED <<requests, num_preemptions, step_requests>>

NextMisuse ==
  \/ Next
  \/ PreemptEmptyQueue
  \/ \E r \in RequestIds : PreemptIdleRequest(r)
  \/ \E key \in EntryKeys :
       \E before \in {<<>>} \cup {<<k>> : k \in EntryKeys} : FinishNonLeaf(before, key)

SpecMisuse == Init /\ [][NextMisuse]_vars

\* The state the claims of C16 speak of, apart from the running queue.
PreemptionFrame ==
  <<waiting_queue, rstates, request_states, prefix_cache, model_seqs, id_manager,
    running_rsentries_changed>>

\* C16, per misuse: the call ends in the fatal state of the assertion it
\* violates; a preemption leaves the queues, every entry (status and model
\* states), the prefix cache, the model storage and the allocator as the
\* caller handed them; finish propagation leaves the non-leaf entry, and all
\* else, as the entries handled before it in the same call left them.
C16_FatalStep ==
  last_op'.op = "misuse" =>
    CASE last_op'.call = "preempt_empty" ->
           /\ fatal' = "ICHECK(!running_queue.empty())"
           /\ running_queue' = running_queue
           /\ PreemptionFrame' = PreemptionFrame
      [] last_op'.call = "preempt_idle" ->
           /\ fatal' = "ICHECK_NE(preempt_rstate_idx, -1)"
           /\ running_queue' = Append(running_queue, last_op'.request)
           /\ PreemptionFrame' = PreemptionFrame
      [] last_op'.call = "finish" ->
           /\ fatal' = "ICHECK(rsentry->child_indices.empty())"
           /\ LET mid == ProcessFinishedRequestStateEntries(last_op'.before, EState, <<>>).e IN
              /\ rstates' = mid.rstates
              /\ running_queue' = mid.running_queue
              /\ request_states' = mid.request_states
              /\ prefix_cache' = mid.prefix_cache
              /\ model_seqs' = mid.model_seqs
              /\ id_manager' = mid.id_manager
           /\ last_op'.before = <<>> =>
                /\ running_queue' = running_queue
                /\ PreemptionFrame' = PreemptionFrame

\* C16: invariant violations are fatal and detected before any state is
\* changed: preemption invoked with an empty running queue, or with a back
\* request that has no Alive entry, ends in a fatal-assertion state with the
\* running queue, waiting queue, entry statuses, model states, prefix cache,
\* model storage and id allocator unchanged; finish propagation handed a
\* non-leaf entry fails fatally before changing that entry's status.
C16_FatalBeforeChange == [][C16_FatalStep]_vars

\* C16 witness: preemption was invoked with a back request without Alive
\* entry while another request was running, and ended in the fatal state.
C16_Witness ==
  /\ last_op.op = "misuse"
  /\ last_op.call = "preempt_idle"
  /\ fatal = "ICHECK_NE(preempt_rstate_idx, -1)"
  /\ Len(running_queue) >= 2

\* C16 witness for finish propagation: a non-leaf entry was handed over after
\* a leaf that finished, and the fatal state was reached with the non-leaf
\* entry still Alive.
C16_WitnessFinish ==
  /\ last_op.op = "misuse"
  /\ last_op.call = "finish"
  /\ last_op.before # <<>>
  /\ fatal = "ICHECK(rsentry->child_indices.empty())"
  /\ Entry(last_op.key).status = kAlive
  /\ Entry(last_op.before[1]).status = kFinished


\* C17: no request is ever lost: in every reachable state every submitted
\* request whose root entry is not Finished is in the running queue or in the
\* waiting queue (or both).
C17_NoRequestLost ==
  \A r \in RequestIds :
    (requests[r] # NoRequest /\ ~RootFinished(r)) =>
      (InSeq(r, running_queue) \/ InSeq(r, waiting_queue))


\* C18: the prefix-cache sync issues ExtendSequence only under the sequence
\* ids of entries that are Alive: no call is made for an entry that is Pending
\* after a preemption or that is Finished, in whatever later step its request
\* is synced again.
C18_ExtendOnlyAlive ==
  \A j \in DOMAIN extend_log : extend_log[j].status = kAlive


\* C19: in every reachable state every request in the running queue has its
\* request state, at least one Alive entry and a root that is not Finished, so
\* that preemption of the back request resolves a target and the running-queue
\* lookup of a finishing root finds the request; no fatal assertion of
\* preemption or finish propagation is reached.
C19_RunningHasAliveEntry ==
  /\ fatal = "none"
  /\ \A j \in DOMAIN running_queue :
       LET r == running_queue[j] IN
       /\ r \in request_states
       /\ \E i \in DOMAIN rstates[r].entries : rstates[r].entries[i].status = kAlive
       /\ ~RootFinished(r)
  /\ \A r \in RequestIds : RootFinished(r) => r \notin request_states

\* C19 witness: preemption resolved a target, a child, in a request that keeps
\* running because its root is still Alive.
C19_Witness ==
  /\ last_op.op = "preempt"
  /\ InSeq(last_op.request, running_queue)
  /\ rstates[last_op.request].entries[0].status = kAlive
  /\ rstates[last_op.request].entries[last_op.idx].status = kPending

\* C19 witness for finish propagation: a root finished and its request was
\* found in the running queue and erased, while another request keeps running.
C19_WitnessFinish ==
  /\ last_op.op = "postproc"
  /\ \E r \in RequestIds :
       /\ RootFinished(r)
       /\ InSeq(r, last_op.requests)
  /\ running_queue # <<>>


\* C20, per state: the sequence of an entry was released at most once.
C20_ReleasedAtMostOnce ==
  \A k \in Entries : release_log[k].cache + release_log[k].model <= 1

\* C20, per step: an entry that is Finished is left as it is (status, sequence
\* id, model states), its sequence is not released again, and it is not the
\* entry a preemption evicts.
C20_FinishedStep ==
  \A k \in Entries :
    Entry(k).status = kFinished =>
      /\ rstates'[k[1]].entries[k[2]] = rstates[k[1]].entries[k[2]]
      /\ release_log'[k] = release_log[k]
      /\ last_op'.op = "preempt" => <<last_op'.request, last_op'.idx>> # k

\* C20: Finished is absorbing: once an entry is Finished no later preemption
\* or finish propagation changes its status, its sequence id or its model
\* state, it is never chosen as the preemption victim, and its sequence is
\* never released a second time.
C20_FinishedIsAbsorbing == [](C20_ReleasedAtMostOnce) /\ [][C20_FinishedStep]_vars

\* C20 witness: preemption passed over a Finished higher-index entry of the
\* back request and evicted a lower-index Alive one; the Finished entry was
\* released once.
C20_Witness ==
  /\ last_op.op = "preempt"
  /\ \E k \in Entries :
       /\ k[1] = last_op.request
       /\ k[2] > last_op.idx
       /\ Entry(k).status = kFinished
       /\ release_log[k].cache + release_log[k].model = 1

====
